---------------------------- MODULE Spec2Model ----------------------------
(***************************************************************************)
(* The C foreign-function interface of the BLS signature library           *)
(* (rust-impl/src/ffi.rs): c_keygen, c_sign, c_verify, c_aggregation and   *)
(* c_verify_agg, together with the parts they call: the BLSAPI trait       *)
(* (crate::api) and the SerDes encoding of keys and signatures.            *)
(*                                                                         *)
(* The curve groups G1, G2 and the target group are modelled by the        *)
(* additive group of integers modulo the prime GROUP_ORDER, a pairing      *)
(* e(a, b) by the product a * b: it is bilinear, and non-degenerate        *)
(* because the order is prime.                                             *)
(* A buffer is a sequence of bytes; the first byte of every encoded value  *)
(* is the ciphersuite id, the rest the compressed point or scalar.         *)
(***************************************************************************)
EXTENDS Integers, Sequences, FiniteSets, TLC

\* ------------------------------------------------------------------ bounds
\* The caller holds at most MaxSigners key pairs.
MaxSigners == 3
\* Messages have at most MaxMsgLen bytes.
MaxMsgLen == 1
\* A declared length exceeds the caller's region by at most MaxOverrun.
MaxOverrun == 1

\* --------------------------------------------------------------- constants
\* "The seed needs to be at least 32 bytes long."
MIN_SEED_LEN == 32
\* Order of the groups (a prime; stands for the 255-bit order of BLS12-381).
GROUP_ORDER == 23
\* The generator of the public-key group.
G1_GEN == 2
\* Lengths of the encodings: one ciphersuite byte and one coordinate byte.
SK_LEN == 2
PK_LEN == 2
SIG_LEN == 2

\* The ciphersuite ids the library recognises.
CipherSuites == {0, 1}
\* The ciphersuite tags a caller may pass (the last one is not recognised).
SuiteTags == 0..2

\* A byte.  Values below GROUP_ORDER are coordinates of valid points; the
\* value GROUP_ORDER stands for every coordinate that is not on the curve or
\* not in the subgroup.
Byte == 0..GROUP_ORDER
\* What a read beyond the caller's region finds when the page is not mapped.
Unmapped == 0 - 1

MsgByte == 0..1
Messages == UNION {[1..k -> MsgByte] : k \in 0..MaxMsgLen}

Zeros(n) == [i \in 1..n |-> 0]
\* Seeds: a run of zero bytes and a distinct trailing byte per signer.  The
\* lengths straddle MIN_SEED_LEN.
SeedTags == 1..MaxSigners
Seeds == {Zeros(n) \o <<t>> : n \in (MIN_SEED_LEN - 2)..(MIN_SEED_LEN - 1), t \in SeedTags}
Tag(seed) == seed[Len(seed)]

\* ------------------------------------------------------- outcomes of a call
\* A call returns a value ("ret"), ends in the fatal outcome of a panic or of
\* a failed assertion ("panic"), or faults on an unmapped read ("segv").
\* oob tells whether the call read beyond the region the caller provided.
Ret(v, o) == [kind |-> "ret", val |-> v, oob |-> o]
Panic(o) == [kind |-> "panic", val |-> <<>>, oob |-> o]
Segv == [kind |-> "segv", val |-> <<>>, oob |-> TRUE]

\* Result<T, String>
ResOk(v) == [tag |-> "Ok", data |-> v]
ResErr == [tag |-> "Err", data |-> <<>>]

\* ------------------------------------------------------------ raw pointers
\* A pointer: the region the caller provided and the memory that follows it.
Ptr(region, adjacent) == [buf |-> region, adj |-> adjacent]

\* std::slice::from_raw_parts(ptr, len): no check of len against the region.
from_raw_parts(p, len) == SubSeq(p.buf \o p.adj, 1, len)

\* The slice reaches beyond the caller's region.
Overruns(p, len) == len > Len(p.buf)

\* Reading the whole slice touches an unmapped byte.
Faults(p, len) ==
    \E i \in 1..len : i > Len(p.buf) /\ (p.buf \o p.adj)[i] = Unmapped

\* ------------------------------------------------------------------ SerDes
\* serialize(&mut buf, true): ciphersuite id, then the compressed element.
serialize(e) == <<e.cs, e.pt>>

\* deserialize: the length is the fixed one, the ciphersuite is recognised
\* and the coordinate is that of a group element.
CanDecode(buf, len) ==
    /\ Len(buf) = len
    /\ buf[1] \in CipherSuites
    /\ buf[2] \in 0..(GROUP_ORDER - 1)

deserialize(buf) == [cs |-> buf[1], pt |-> buf[2]]

\* ------------------------------------------------------------------ BLSAPI
RECURSIVE SumBytes(_)
SumBytes(s) == IF s = <<>> THEN 0 ELSE s[1] + SumBytes(Tail(s))

\* Key derivation: a non-zero scalar from the seed.
KeyOf(s) == 1 + (SumBytes(s) % (GROUP_ORDER - 1))

RECURSIVE MsgCode(_)
MsgCode(m) == IF m = <<>> THEN 1 ELSE 2 * MsgCode(SubSeq(m, 1, Len(m) - 1)) + m[Len(m)]

\* Hash to the signature group, domain-separated by the ciphersuite: a
\* non-zero element.
hash_to_curve(cs, m) ==
    1 + ((MsgCode(m) * Cardinality(CipherSuites) + cs) % (GROUP_ORDER - 1))

pairing(a, b) == (a * b) % GROUP_ORDER

RECURSIVE SumPt(_)
SumPt(v) == IF v = <<>> THEN 0 ELSE (v[1].pt + SumPt(Tail(v))) % GROUP_ORDER

\* BLSPKInG1::keygen(seed, ciphersuite).  It returns the keys or does not
\* return: Err stands for its fatal error on a seed shorter than MIN_SEED_LEN
\* or on an unrecognised ciphersuite, raised before the seed is read.
keygen(s, ciphersuite) ==
    IF Len(s) < MIN_SEED_LEN \/ ciphersuite \notin CipherSuites
    THEN ResErr
    ELSE ResOk([sk |-> [cs |-> ciphersuite, pt |-> KeyOf(s)],
                pk |-> [cs |-> ciphersuite, pt |-> (G1_GEN * KeyOf(s)) % GROUP_ORDER]])

\* BLSPKInG1::sign(&k, m)
sign(k, m) == [cs |-> k.cs, pt |-> (k.pt * hash_to_curve(k.cs, m)) % GROUP_ORDER]

\* BLSPKInG1::verify(&k, m, &s)
verify(k, m, s) ==
    /\ k.cs = s.cs
    /\ pairing(k.pt, hash_to_curve(k.cs, m)) = pairing(G1_GEN, s.pt)

\* BLSPKInG1::aggregate_without_verify(&sig_vec): Err on an empty list and on
\* signatures of different ciphersuites, else the sum.
aggregate_without_verify(sig_vec) ==
    IF sig_vec = <<>> \/ \E i \in 1..Len(sig_vec) : sig_vec[i].cs # sig_vec[1].cs
    THEN ResErr
    ELSE ResOk([cs |-> sig_vec[1].cs, pt |-> SumPt(sig_vec)])

\* BLSPKInG1::verify_aggregated(pk_vec, m, &sig)
verify_aggregated(pk_vec, m, sig) ==
    /\ pk_vec # <<>>
    /\ \A i \in 1..Len(pk_vec) : pk_vec[i].cs = sig.cs
    /\ pairing(SumPt(pk_vec), hash_to_curve(sig.cs, m)) = pairing(G1_GEN, sig.pt)

\* --------------------------------------------------------------------- ffi
\* bls_sk, bls_pk, bls_sig: a wrapper of the encoded bytes.
bls_sk(bytes) == [data |-> bytes]
bls_pk(bytes) == [data |-> bytes]
bls_sig(bytes) == [data |-> bytes]
\* bls_keys
bls_keys(pkw, skw) == [pk |-> pkw, sk |-> skw]

\* An element of a list that lies on an unmapped page.
UnmappedElem(len) == [data |-> [i \in 1..len |-> Unmapped]]

\* Mutant of c_keygen: a seed shorter than MIN_SEED_LEN is padded with zero
\* bytes instead of being handed to keygen as it is.
c_keygen_padded(seed, seed_len, ciphersuite) ==
    LET s0 == from_raw_parts(seed, seed_len)
        s == IF Len(s0) < MIN_SEED_LEN THEN s0 \o Zeros(MIN_SEED_LEN - Len(s0)) ELSE s0
        r == keygen(s, ciphersuite)
    IN  IF r.tag = "Err" THEN Panic(FALSE)
        ELSE IF Faults(seed, seed_len) THEN Segv
        ELSE Ret(bls_keys(bls_pk(serialize(r.data.pk)), bls_sk(serialize(r.data.sk))),
                 Overruns(seed, seed_len))

\* c_keygen(seed, seed_len, ciphersuite) -> bls_keys
c_keygen(seed, seed_len, ciphersuite) ==
    LET s == from_raw_parts(seed, seed_len)
        r == keygen(s, ciphersuite)
        pk_buf == serialize(r.data.pk)
        sk_buf == serialize(r.data.sk)
    IN  IF r.tag = "Err" THEN Panic(FALSE)
        ELSE IF Faults(seed, seed_len) THEN Segv
        ELSE IF Len(pk_buf) # PK_LEN \/ Len(sk_buf) # SK_LEN
        THEN Panic(Overruns(seed, seed_len))
        ELSE Ret(bls_keys(bls_pk(pk_buf), bls_sk(sk_buf)), Overruns(seed, seed_len))

\* c_sign(sk, msg, msg_len) -> bls_sig
c_sign(sk, msg, msg_len) ==
    LET m == from_raw_parts(msg, msg_len)
        k_buf == sk.data
        sig_buf == serialize(sign(deserialize(k_buf), m))
    IN  IF ~CanDecode(k_buf, SK_LEN) THEN Panic(FALSE)
        ELSE IF Faults(msg, msg_len) THEN Segv
        ELSE IF Len(sig_buf) # SIG_LEN THEN Panic(Overruns(msg, msg_len))
        ELSE Ret(bls_sig(sig_buf), Overruns(msg, msg_len))

\* Mutant of c_verify: the message slice is one byte short.
c_verify_short(pk, msg, msglen, sig) ==
    LET m == from_raw_parts(msg, msglen - 1)
    IN  IF ~CanDecode(pk.data, PK_LEN) THEN Panic(FALSE)
        ELSE IF ~CanDecode(sig.data, SIG_LEN) THEN Panic(FALSE)
        ELSE IF Faults(msg, msglen) THEN Segv
        ELSE Ret(verify(deserialize(pk.data), m, deserialize(sig.data)),
                 Overruns(msg, msglen))

\* Mutant of c_verify: a signature that fails to decode is reported as a
\* failed verification.
c_verify_lenient(pk, msg, msglen, sig) ==
    LET m == from_raw_parts(msg, msglen)
    IN  IF ~CanDecode(pk.data, PK_LEN) THEN Panic(FALSE)
        ELSE IF ~CanDecode(sig.data, SIG_LEN) THEN Ret(FALSE, FALSE)
        ELSE IF Faults(msg, msglen) THEN Segv
        ELSE Ret(verify(deserialize(pk.data), m, deserialize(sig.data)),
                 Overruns(msg, msglen))

\* c_verify(pk, msg, msglen, sig) -> bool
c_verify(pk, msg, msglen, sig) ==
    LET m == from_raw_parts(msg, msglen)
        k_buf == pk.data
        s_buf == sig.data
    IN  IF ~CanDecode(k_buf, PK_LEN) THEN Panic(FALSE)
        ELSE IF ~CanDecode(s_buf, SIG_LEN) THEN Panic(FALSE)
        ELSE IF Faults(msg, msglen) THEN Segv
        ELSE Ret(verify(deserialize(k_buf), m, deserialize(s_buf)), Overruns(msg, msglen))

\* for x in list.iter().take(num) { match deserialize(x.data) { Ok(p) => p,
\* Err(e) => panic!(..) }; vec.push(s) }: the decoded elements, and the
\* index of the element that failed to decode (0 when none did).
RECURSIVE decode_loop(_, _, _)
decode_loop(list, len, vec) ==
    IF list = <<>> THEN [vec |-> vec, failed |-> 0]
    ELSE IF ~CanDecode(list[1].data, len) THEN [vec |-> vec, failed |-> Len(vec) + 1]
    ELSE decode_loop(Tail(list), len, Append(vec, deserialize(list[1].data)))

\* The outcome of a loop that stopped at index d.failed of the slice.
LoopStop(p, d, len) ==
    IF (p.buf \o p.adj)[d.failed] = UnmappedElem(len) THEN Segv
    ELSE Panic(d.failed > Len(p.buf))

\* The outcome of c_aggregation once the loop has decoded d.
AggOutcome(sig_list, sig_num, d, fatalErr) ==
    LET agg_sig == aggregate_without_verify(d.vec)
    IN  IF d.failed # 0 THEN LoopStop(sig_list, d, SIG_LEN)
        ELSE IF agg_sig.tag = "Err"
        THEN (IF fatalErr THEN Panic(Overruns(sig_list, sig_num))
              ELSE Ret(ResErr, Overruns(sig_list, sig_num)))
        ELSE Ret(ResOk(bls_sig(serialize(agg_sig.data))), Overruns(sig_list, sig_num))

\* Mutant of c_aggregation: the loop stops one signature early.
c_aggregation_droplast(sig_list, sig_num) ==
    AggOutcome(sig_list, sig_num,
               decode_loop(from_raw_parts(sig_list, sig_num - 1), SIG_LEN, <<>>), FALSE)

\* Mutant of c_aggregation: the loop starts at the second signature.
c_aggregation_skipfirst(sig_list, sig_num) ==
    AggOutcome(sig_list, sig_num,
               decode_loop(SubSeq(from_raw_parts(sig_list, sig_num), 2, sig_num), SIG_LEN, <<>>),
               FALSE)

\* Mutant of c_aggregation: a signature that fails to decode is skipped.
c_aggregation_skipbad(sig_list, sig_num) ==
    LET list == from_raw_parts(sig_list, sig_num)
        good == SelectSeq(list, LAMBDA x : CanDecode(x.data, SIG_LEN))
    IN  AggOutcome(sig_list, sig_num, decode_loop(good, SIG_LEN, <<>>), FALSE)

\* Mutant of c_aggregation: the Err of the aggregation step is unwrapped.
c_aggregation_unwrap(sig_list, sig_num) ==
    AggOutcome(sig_list, sig_num,
               decode_loop(from_raw_parts(sig_list, sig_num), SIG_LEN, <<>>), TRUE)

\* c_aggregation(sig_list, sig_num) -> Result<bls_sig, String>
c_aggregation(sig_list, sig_num) ==
    LET list == from_raw_parts(sig_list, sig_num)
        d == decode_loop(list, SIG_LEN, <<>>)
        agg_sig == aggregate_without_verify(d.vec)
        sig_buf == serialize(agg_sig.data)
    IN  IF d.failed # 0 THEN LoopStop(sig_list, d, SIG_LEN)
        ELSE IF agg_sig.tag = "Err" THEN Ret(ResErr, Overruns(sig_list, sig_num))
        ELSE IF Len(sig_buf) # SIG_LEN THEN Panic(Overruns(sig_list, sig_num))
        ELSE Ret(ResOk(bls_sig(sig_buf)), Overruns(sig_list, sig_num))

\* Mutant of c_verify_agg: an aggregate that fails to decode is reported as
\* a failed verification.
c_verify_agg_lenient(pk_list, pk_num, msg, msglen, agg_sig) ==
    LET d == decode_loop(from_raw_parts(pk_list, pk_num), PK_LEN, <<>>)
        m == from_raw_parts(msg, msglen)
        o == Overruns(pk_list, pk_num) \/ Overruns(msg, msglen)
    IN  IF d.failed # 0 THEN LoopStop(pk_list, d, PK_LEN)
        ELSE IF ~CanDecode(agg_sig.data, SIG_LEN) THEN Ret(FALSE, Overruns(pk_list, pk_num))
        ELSE IF Faults(msg, msglen) THEN Segv
        ELSE Ret(verify_aggregated(d.vec, m, deserialize(agg_sig.data)), o)

\* Mutant of c_verify_agg: the verification is asserted, not returned.
c_verify_agg_assert(pk_list, pk_num, msg, msglen, agg_sig) ==
    LET d == decode_loop(from_raw_parts(pk_list, pk_num), PK_LEN, <<>>)
        m == from_raw_parts(msg, msglen)
        o == Overruns(pk_list, pk_num) \/ Overruns(msg, msglen)
    IN  IF d.failed # 0 THEN LoopStop(pk_list, d, PK_LEN)
        ELSE IF ~CanDecode(agg_sig.data, SIG_LEN) THEN Panic(Overruns(pk_list, pk_num))
        ELSE IF Faults(msg, msglen) THEN Segv
        ELSE IF verify_aggregated(d.vec, m, deserialize(agg_sig.data)) THEN Ret(TRUE, o)
        ELSE Panic(o)

\* c_verify_agg(pk_list, pk_num, msg, msglen, agg_sig) -> bool
c_verify_agg(pk_list, pk_num, msg, msglen, agg_sig) ==
    LET list == from_raw_parts(pk_list, pk_num)
        d == decode_loop(list, PK_LEN, <<>>)
        m == from_raw_parts(msg, msglen)
        s_buf == agg_sig.data
        o == Overruns(pk_list, pk_num) \/ Overruns(msg, msglen)
    IN  IF d.failed # 0 THEN LoopStop(pk_list, d, PK_LEN)
        ELSE IF ~CanDecode(s_buf, SIG_LEN) THEN Panic(Overruns(pk_list, pk_num))
        ELSE IF Faults(msg, msglen) THEN Segv
        ELSE Ret(verify_aggregated(d.vec, m, deserialize(s_buf)), o)

\* ------------------------------------------------------------------- state
\* The caller's memory and the last call it made:
\*   gen   the seed and the ciphersuite each key pair was generated from
\*   keys  the bls_keys returned by c_keygen, one per signer
\*   msg   the message the signers sign
\*   sigs  the bls_sig returned by c_sign for signer 1, 2, ... over msg
\*   agg   the aggregate of sigs returned by c_aggregation (<<>>: none yet)
\*   last  the last call: the operation, its arguments and its outcome
VARIABLES gen, keys, msg, sigs, agg, last

vars == <<gen, keys, msg, sigs, agg, last>>

Idle == [op |-> "idle", args |-> <<>>, out |-> Ret(<<>>, FALSE)]

Call(name, a, o) == [op |-> name, args |-> a, out |-> o]

\* The call read only memory the caller provided.
InBounds(c) == ~c.out.oob

\* buf with the byte at pos replaced by val.
Flip(buf, pos, val) == [buf EXCEPT ![pos] = val]

\* Every buffer that differs from buf in exactly one byte.
Flips(buf) == {Flip(buf, p, v) : p \in 1..Len(buf), v \in Byte} \ {buf}

\* Four of them: an unrecognised and the other recognised ciphersuite, a
\* coordinate of no group element and the coordinate of another element.
SomeFlips(buf) ==
    {Flip(buf, 1, CHOOSE c \in SuiteTags : c \notin CipherSuites),
     Flip(buf, 1, CHOOSE c \in CipherSuites : c # buf[1]),
     Flip(buf, 2, GROUP_ORDER),
     Flip(buf, 2, (buf[2] + 1) % GROUP_ORDER)}

\* The memory that follows a region of bytes, as far as a call reads it
\* (<<>>: the call stays within the region).
AdjBytes == UNION {[1..n -> {0, Unmapped}] : n \in 0..MaxOverrun}

\* The memory that follows a list of encoded values.
AdjElems(len) ==
    UNION {[1..n -> {[data |-> <<0, 0>>], [data |-> <<0, GROUP_ORDER>>], UnmappedElem(len)}] :
             n \in 0..MaxOverrun}

\* The sequences of distinct indices of 1..n, and those that hold them all.
IdxLists(n) ==
    {s \in UNION {[1..k -> 1..n] : k \in 0..n} :
        \A i, j \in 1..Len(s) : i # j => s[i] # s[j]}
Perms(n) == {s \in IdxLists(n) : Len(s) = n}

Pick(list, idx) == [i \in 1..Len(idx) |-> list[idx[i]]]

\* list with one element tampered with.
TamperOne(list) ==
    UNION {{[list EXCEPT ![k] = [data |-> b]] : b \in SomeFlips(list[k].data)} :
             k \in 1..Len(list)}

PkList == [i \in 1..Len(keys) |-> keys[i].pk]

Init ==
    /\ gen = <<>>
    /\ keys = <<>>
    /\ msg \in Messages
    /\ sigs = <<>>
    /\ agg = <<>>
    /\ last = Idle

\* The caller generates the key pair of the next signer, before any signing.
Keygen ==
    /\ last.op = "idle"
    /\ sigs = <<>>
    /\ Len(keys) < MaxSigners
    /\ \E seed \in {s \in Seeds : \A i \in 1..Len(gen) : Tag(gen[i].seed) < Tag(s)},
          cs \in SuiteTags, adj \in AdjBytes :
         LET a == [seed |-> Ptr(seed, adj), seed_len |-> Len(seed) + Len(adj),
                   ciphersuite |-> cs]
             out == c_keygen(a.seed, a.seed_len, a.ciphersuite)
             kept == out.kind = "ret" /\ ~out.oob
         IN  /\ last' = Call("c_keygen", a, out)
             /\ keys' = IF kept THEN Append(keys, out.val) ELSE keys
             /\ gen' = IF kept THEN Append(gen, [seed |-> seed, cs |-> cs]) ELSE gen
    /\ UNCHANGED <<msg, sigs, agg>>

\* The arguments of the calls of c_sign: the signer's secret key, or a
\* tampered copy of it, and msg with what follows it in memory.
SignCases(sk) ==
    {<<k, <<>>>> : k \in {sk} \cup SomeFlips(sk)} \cup {<<sk, adj>> : adj \in AdjBytes}

\* The next signer signs msg.
Sign ==
    /\ last.op = "idle"
    /\ agg = <<>>
    /\ Len(sigs) < Len(keys)
    /\ \E c \in SignCases(keys[Len(sigs) + 1].sk.data) :
         LET a == [sk |-> bls_sk(c[1]), msg |-> Ptr(msg, c[2]),
                   msg_len |-> Len(msg) + Len(c[2])]
             out == c_sign(a.sk, a.msg, a.msg_len)
             kept == out.kind = "ret" /\ ~out.oob /\ a.sk = keys[Len(sigs) + 1].sk
         IN  /\ last' = Call("c_sign", a, out)
             /\ sigs' = IF kept THEN Append(sigs, out.val) ELSE sigs
    /\ UNCHANGED <<gen, keys, msg, agg>>

\* The arguments of the calls of c_verify: the public key, any message and
\* the signature; the signature with one byte changed, over msg or another
\* message; a tampered public key; msg with what follows it in memory.
VerifyCases(pk, sig) ==
    {<<pk, m, <<>>, sig>> : m \in Messages}
    \cup {<<pk, m, <<>>, s>> : m \in {msg, CHOOSE x \in Messages : x # msg}, s \in Flips(sig)}
    \cup {<<k, msg, <<>>, sig>> : k \in SomeFlips(pk)}
    \cup {<<pk, msg, adj, sig>> : adj \in AdjBytes}

\* The caller verifies the latest signature against the signer's public key.
Verify ==
    /\ last.op = "idle"
    /\ agg = <<>>
    /\ Len(sigs) > 0
    /\ \E c \in VerifyCases(keys[Len(sigs)].pk.data, sigs[Len(sigs)].data) :
         LET a == [pk |-> bls_pk(c[1]), msg |-> Ptr(c[2], c[3]),
                   msglen |-> Len(c[2]) + Len(c[3]), sig |-> bls_sig(c[4])]
         IN  last' = Call("c_verify", a, c_verify(a.pk, a.msg, a.msglen, a.sig))
    /\ UNCHANGED <<gen, keys, msg, sigs, agg>>

\* The arguments of the calls of c_aggregation: the signatures in any order;
\* the signatures with one of them tampered with; the signatures with what
\* follows them in memory.
AggCases ==
    {<<Pick(sigs, perm), <<>>>> : perm \in Perms(Len(sigs))}
    \cup {<<l, <<>>>> : l \in TamperOne(sigs)}
    \cup {<<sigs, adj>> : adj \in AdjElems(SIG_LEN)}

\* The signatures of list are those of sigs, in some order.
IsPermOfSigs(list) == \E perm \in Perms(Len(sigs)) : list = Pick(sigs, perm)

\* The caller aggregates the signatures it holds.
Aggregation ==
    /\ last.op = "idle"
    /\ agg = <<>>
    /\ \E c \in AggCases :
         LET a == [sig_list |-> Ptr(c[1], c[2]), sig_num |-> Len(c[1]) + Len(c[2])]
             out == c_aggregation(a.sig_list, a.sig_num)
             kept == /\ out.kind = "ret" /\ ~out.oob /\ out.val.tag = "Ok"
                     /\ IsPermOfSigs(c[1])
         IN  /\ last' = Call("c_aggregation", a, out)
             /\ agg' = IF kept THEN out.val.data ELSE agg
    /\ UNCHANGED <<gen, keys, msg, sigs>>

\* The arguments of the calls of c_verify_agg: any list of distinct public
\* keys, over msg; the signers' public keys over any message, with a tampered
\* public key, with the aggregate with one byte changed, and with what follows
\* the list and the message in memory.
VerifyAggCases ==
    LET pks == SubSeq(PkList, 1, Len(sigs))
    IN  {<<Pick(PkList, idx), <<>>, msg, <<>>, agg.data>> : idx \in IdxLists(Len(keys))}
        \cup {<<pks, <<>>, m, <<>>, agg.data>> : m \in Messages}
        \cup {<<l, <<>>, msg, <<>>, agg.data>> : l \in TamperOne(pks)}
        \cup {<<pks, <<>>, msg, <<>>, s>> : s \in Flips(agg.data)}
        \cup {<<pks, adj, msg, <<>>, agg.data>> : adj \in AdjElems(PK_LEN)}
        \cup {<<pks, <<>>, msg, adjm, agg.data>> : adjm \in AdjBytes}

\* The caller verifies the aggregate against a list of public keys.
VerifyAgg ==
    /\ last.op = "idle"
    /\ agg # <<>>
    /\ \E c \in VerifyAggCases :
         LET a == [pk_list |-> Ptr(c[1], c[2]), pk_num |-> Len(c[1]) + Len(c[2]),
                   msg |-> Ptr(c[3], c[4]), msglen |-> Len(c[3]) + Len(c[4]),
                   agg_sig |-> bls_sig(c[5])]
         IN  last' = Call("c_verify_agg", a,
                          c_verify_agg(a.pk_list, a.pk_num, a.msg, a.msglen, a.agg_sig))
    /\ UNCHANGED <<gen, keys, msg, sigs, agg>>

\* A call that returned, having read only the caller's memory, is over and
\* the caller goes on; after a fatal outcome or a read out of bounds the
\* process makes no further call.
Continue ==
    /\ last.op # "idle"
    /\ last.out.kind = "ret"
    /\ InBounds(last)
    /\ last' = Idle
    /\ UNCHANGED <<gen, keys, msg, sigs, agg>>

Next == Keygen \/ Sign \/ Verify \/ Aggregation \/ VerifyAgg \/ Continue

Spec == Init /\ [][Next]_vars

\* ------------------------------------------------------- the calls made
\* The declared length or count of an argument of the call exceeds the
\* region the caller provided.
Overrun(c) ==
    CASE c.op = "c_keygen" -> Overruns(c.args.seed, c.args.seed_len)
      [] c.op = "c_sign" -> Overruns(c.args.msg, c.args.msg_len)
      [] c.op = "c_verify" -> Overruns(c.args.msg, c.args.msglen)
      [] c.op = "c_aggregation" -> Overruns(c.args.sig_list, c.args.sig_num)
      [] c.op = "c_verify_agg" -> \/ Overruns(c.args.pk_list, c.args.pk_num)
                                  \/ Overruns(c.args.msg, c.args.msglen)
      [] OTHER -> FALSE

\* The last call is a call of name whose arguments lie in the caller's memory.
Called(name) == last.op = name /\ ~Overrun(last)

\* Every buffer of the list decodes.
AllDecode(list, len) == \A k \in 1..Len(list) : CanDecode(list[k].data, len)

\* The signers: those whose signature the caller holds.
Signers == 1..Len(sigs)
SignerPks == SubSeq(PkList, 1, Len(sigs))

\* All signers generated their keys under one ciphersuite.
SameSuite == \A i, j \in Signers : gen[i].cs = gen[j].cs

\* The caller's keys and signatures are what c_keygen and c_sign returned.
Provenance ==
    /\ Len(gen) = Len(keys) /\ Len(sigs) <= Len(keys)
    /\ \A i \in 1..Len(keys) :
          /\ Len(gen[i].seed) >= MIN_SEED_LEN /\ gen[i].cs \in CipherSuites
          /\ c_keygen(Ptr(gen[i].seed, <<>>), Len(gen[i].seed), gen[i].cs)
               = Ret(keys[i], FALSE)
    /\ \A i \in Signers : c_sign(keys[i].sk, Ptr(msg, <<>>), Len(msg)) = Ret(sigs[i], FALSE)

\* ------------------------------------------------------------------ claims

\* C1: for every key pair returned by c_keygen and every message m,
\* c_verify(pk, m, c_sign(sk, m)) returns true, and neither c_sign nor
\* c_verify ends in a fatal error: the encoded sk and pk decode again.
C1_SignVerify ==
    /\ Provenance
    /\ \A i \in 1..Len(keys) :
          /\ CanDecode(keys[i].sk.data, SK_LEN)
          /\ CanDecode(keys[i].pk.data, PK_LEN)
          /\ Called("c_sign") /\ last.args.sk = keys[i].sk => last.out.kind = "ret"
    /\ \A i \in Signers :
          (/\ Called("c_verify")
           /\ last.args.pk = keys[i].pk
           /\ last.args.msg.buf = msg
           /\ last.args.sig = sigs[i])
          => last.out = Ret(TRUE, FALSE)

C1_Witness ==
    /\ Len(sigs) >= 2
    /\ Len(msg) > 0
    /\ Called("c_verify")
    /\ last.args.pk = keys[Len(sigs)].pk
    /\ last.args.msg.buf = msg
    /\ last.args.sig = sigs[Len(sigs)]
    /\ last.out = Ret(TRUE, FALSE)

\* C2 as claimed: for every non-empty set of signers produced by c_keygen who
\* sign the same message, c_aggregation over their signatures returns Ok.
C2_AnySigners ==
    (Called("c_aggregation") /\ sigs # <<>> /\ last.args.sig_list.buf = sigs)
    => (last.out.kind = "ret" /\ last.out.val.tag = "Ok")

\* C2 as amended: for every non-empty set of signers produced by c_keygen
\* under one ciphersuite who sign the same message m, c_aggregation over
\* their signatures returns Ok(agg) and c_verify_agg([pk_i], m, agg) returns
\* true.
C2_Linearity ==
    /\ (Called("c_aggregation") /\ sigs # <<>> /\ last.args.sig_list.buf = sigs /\ SameSuite)
       => (last.out.kind = "ret" /\ last.out.val.tag = "Ok")
    /\ agg # <<>> =>
          /\ SameSuite
          /\ c_aggregation(Ptr(sigs, <<>>), Len(sigs)) = Ret(ResOk(agg), FALSE)
    /\ (/\ Called("c_verify_agg")
        /\ last.args.pk_list.buf = SignerPks
        /\ last.args.msg.buf = msg
        /\ last.args.agg_sig = agg)
       => last.out = Ret(TRUE, FALSE)

C2_Witness ==
    /\ Len(sigs) = MaxSigners
    /\ Called("c_verify_agg")
    /\ last.args.pk_list.buf = SignerPks
    /\ last.args.msg.buf = msg
    /\ last.args.agg_sig = agg
    /\ last.out = Ret(TRUE, FALSE)

\* C3: in every operation that consumes an encoded value, if a consumed
\* buffer fails to decode the call ends in the fatal outcome: it returns no
\* signature, no boolean and no aggregation Err value.
C3_MalformedRejected ==
    /\ (Called("c_sign") /\ ~CanDecode(last.args.sk.data, SK_LEN))
       => last.out.kind = "panic"
    /\ (/\ Called("c_verify")
        /\ \/ ~CanDecode(last.args.pk.data, PK_LEN)
           \/ ~CanDecode(last.args.sig.data, SIG_LEN))
       => last.out.kind = "panic"
    /\ (Called("c_aggregation") /\ ~AllDecode(last.args.sig_list.buf, SIG_LEN))
       => last.out.kind = "panic"
    /\ (/\ Called("c_verify_agg")
        /\ \/ ~AllDecode(last.args.pk_list.buf, PK_LEN)
           \/ ~CanDecode(last.args.agg_sig.data, SIG_LEN))
       => last.out.kind = "panic"

C3_Witness ==
    /\ Called("c_verify_agg")
    /\ Len(last.args.pk_list.buf) >= 2
    /\ AllDecode(last.args.pk_list.buf, PK_LEN)
    /\ ~CanDecode(last.args.agg_sig.data, SIG_LEN)
    /\ last.out.kind = "panic"

\* The last call verified the latest signature with one byte changed,
\* against the signer's public key and the signed message.
FlippedSig ==
    /\ Called("c_verify")
    /\ last.args.pk = keys[Len(sigs)].pk
    /\ last.args.msg.buf = msg
    /\ last.args.sig.data \in Flips(sigs[Len(sigs)].data)

\* The last call verified the latest signature against the signer's public
\* key and a message other than the signed one.
OtherMessage ==
    /\ Called("c_verify")
    /\ last.args.pk = keys[Len(sigs)].pk
    /\ last.args.msg.buf # msg
    /\ last.args.sig = sigs[Len(sigs)]

\* C4 as claimed: changing any single byte of a valid signature, or verifying
\* against another message, makes c_verify return false, never an error.
C4_AlwaysFalse == (FlippedSig \/ OtherMessage) => last.out = Ret(FALSE, FALSE)

\* C4 as amended: verifying a valid signature against another message makes
\* c_verify return false; changing any single byte of a valid signature
\* makes c_verify return false when the changed buffer still decodes and end
\* in the fatal outcome when it does not; it never returns true.
C4_FalseOrFatal ==
    /\ OtherMessage => last.out = Ret(FALSE, FALSE)
    /\ FlippedSig =>
          IF CanDecode(last.args.sig.data, SIG_LEN)
          THEN last.out = Ret(FALSE, FALSE)
          ELSE last.out = Panic(FALSE)

C4_Witness ==
    /\ FlippedSig
    /\ CanDecode(last.args.sig.data, SIG_LEN)
    /\ last.args.sig.data[1] = sigs[Len(sigs)].data[1]
    /\ last.out = Ret(FALSE, FALSE)

\* C5: when the region the caller provided is smaller than the declared
\* length or count, the call is rejected before any byte is read; no
\* operation reads at or beyond the end of the caller's region.
C5_BoundsChecked ==
    /\ ~last.out.oob
    /\ Overrun(last) => last.out.kind = "panic"

C7_NoPartialAggregate ==
    Called("c_aggregation") =>
       LET list == last.args.sig_list.buf
           vec == [k \in 1..Len(list) |-> deserialize(list[k].data)]
       IN  /\ ~AllDecode(list, SIG_LEN) => last.out = Panic(FALSE)
           /\ (last.out.kind = "ret" /\ last.out.val.tag = "Ok") =>
                 /\ AllDecode(list, SIG_LEN)
                 /\ last.args.sig_num = Len(list)
                 /\ last.out.val.data =
                       bls_sig(serialize([cs |-> vec[1].cs, pt |-> SumPt(vec)]))

C7_Witness ==
    /\ Called("c_aggregation")
    /\ Len(last.args.sig_list.buf) = MaxSigners
    /\ \A k \in 1..(MaxSigners - 1) : CanDecode(last.args.sig_list.buf[k].data, SIG_LEN)
    /\ ~CanDecode(last.args.sig_list.buf[MaxSigners].data, SIG_LEN)
    /\ last.out = Panic(FALSE)

\* The signatures of the list are of different ciphersuites.
Inconsistent(list) == \E i, j \in 1..Len(list) : list[i].data[1] # list[j].data[1]

C9_OrderIndependent ==
    /\ Called("c_aggregation") =>
          \A perm \in Perms(Len(last.args.sig_list.buf)) :
             c_aggregation(Ptr(Pick(last.args.sig_list.buf, perm), <<>>), Len(perm))
               = last.out
    /\ Called("c_verify_agg") =>
          \A perm \in Perms(Len(last.args.pk_list.buf)) :
             c_verify_agg(Ptr(Pick(last.args.pk_list.buf, perm), <<>>), Len(perm),
                          last.args.msg, last.args.msglen, last.args.agg_sig)
               = last.out
    /\ (Called("c_aggregation") /\ IsPermOfSigs(last.args.sig_list.buf) /\ agg # <<>>)
       => last.out = Ret(ResOk(agg), FALSE)
    /\ (/\ Called("c_verify_agg")
        /\ \E perm \in Perms(Len(sigs)) : last.args.pk_list.buf = Pick(SignerPks, perm)
        /\ last.args.msg.buf = msg
        /\ last.args.agg_sig = agg)
       => last.out = Ret(TRUE, FALSE)

C9_Witness ==
    /\ Len(sigs) = MaxSigners
    /\ Called("c_verify_agg")
    /\ last.args.pk_list.buf = Pick(SignerPks, [i \in Signers |-> Len(sigs) + 1 - i])
    /\ last.args.msg.buf = msg
    /\ last.args.agg_sig = agg
    /\ last.out = Ret(TRUE, FALSE)

\* The list holds the public keys of some, not all, of the signers.
StrictSubset(list) ==
    \E idx \in IdxLists(Len(sigs)) : Len(idx) < Len(sigs) /\ list = Pick(SignerPks, idx)

\* C10: for key pairs generated from distinct seeds, if agg is the aggregate
\* of the signatures of all signers over m, c_verify_agg with the public keys
\* of a strict subset of the signers and m returns false, as an ordinary
\* boolean.
C10_MissingSigner ==
    (/\ Called("c_verify_agg")
     /\ StrictSubset(last.args.pk_list.buf)
     /\ last.args.msg.buf = msg
     /\ last.args.agg_sig = agg)
    => last.out = Ret(FALSE, FALSE)

C10_Witness ==
    /\ Len(sigs) = MaxSigners
    /\ Called("c_verify_agg")
    /\ last.args.pk_list.buf = SubSeq(SignerPks, 1, MaxSigners - 1)
    /\ last.args.msg.buf = msg
    /\ last.args.agg_sig = agg
    /\ last.out = Ret(FALSE, FALSE)

=============================================================================
